---- MODULE Spec2Model ----
(***************************************************************************)
(* The Request Executor of the Rax AI SDK, in its two shipped variants:    *)
(*   "ts"   RaxAI.request      (src/src/client.ts, lines 267-340)          *)
(*   "dist" RaxAI.makeRequest  (src/dist/client.js, lines 60-117)          *)
(* One logical request is followed from the call to its single outcome.    *)
(* The server, the transport and the timeout timers are the environment.   *)
(***************************************************************************)
EXTENDS Integers, Sequences, FiniteSets, TLC

\* ---------------------------------------------------------------- bounds
\* largest value of config.retries the constructor is given
MaxCfgRetries == 2
\* number of distinct non-default config.retryDelay values tried
MaxCfgDelays == 1

\* ------------------------------------------------------ program constants
DefaultRetries == 3
DefaultRetryDelay == 1000
TsAttempts == 3
TsLastAttempt == 2
TsBaseDelay == 1000

Variants == {"ts", "dist"}

\* ------------------------------------------------------------ the server
Statuses == {200, 400, 429, 500, 503}

ErrorTypes == {"authentication_error", "rate_limit_exceeded",
               "invalid_request_error", "server_error"}

\* A response body: undecodable text, a JSON value without an `error`
\* member (a payload, or {}), or {error: {type?: t}} ("none": no type).
Bodies ==
    {[decodable |-> FALSE, hasError |-> FALSE, etype |-> "none"],
     [decodable |-> TRUE, hasError |-> FALSE, etype |-> "none"]}
    \cup {[decodable |-> TRUE, hasError |-> TRUE, etype |-> t] :
              t \in ErrorTypes \cup {"none"}}

\* The retry-after hint a rate-limit response may carry (0: no hint).
RetryAfterHints == {0, 30}

Responses ==
    {[status |-> s, body |-> b, retryAfter |-> 0] : s \in Statuses, b \in Bodies}
    \cup {[status |-> 429, body |-> b, retryAfter |-> h] :
              b \in Bodies, h \in RetryAfterHints \ {0}}

NoResponse ==
    [status |-> 0,
     body |-> [decodable |-> FALSE, hasError |-> FALSE, etype |-> "none"],
     retryAfter |-> 0]

\* ------------------------------------------------------------ the client
\* config objects given to the dist constructor: retries and retryDelay are
\* optional members
CfgRetriesValues == 0 .. MaxCfgRetries
CfgDelayValues == {0} \cup {500 * i : i \in 1 .. MaxCfgDelays}

Configs ==
    {[r \in {} |-> 0]}
    \cup {[r \in {"retries"} |-> v] : v \in CfgRetriesValues}
    \cup {[r \in {"retryDelay"} |-> v] : v \in CfgDelayValues}
    \cup {[r \in {"retries", "retryDelay"} |->
              IF r = "retries" THEN v ELSE d] :
              v \in CfgRetriesValues, d \in CfgDelayValues}

\* JavaScript `x || d` on an optional numeric member
OrDefault(cfg, member, d) ==
    IF member \in DOMAIN cfg /\ cfg[member] # 0 THEN cfg[member] ELSE d

\* the fields the constructor stores
Construct(v, cfg) ==
    IF v = "dist"
    THEN [variant |-> "dist",
          retries |-> OrDefault(cfg, "retries", DefaultRetries),
          retryDelay |-> OrDefault(cfg, "retryDelay", DefaultRetryDelay)]
    ELSE [variant |-> v]

RECURSIVE Pow2(_)
Pow2(n) == IF n <= 0 THEN 1 ELSE 2 * Pow2(n - 1)


\* the class of a status, as the attempt history records it
StatusClass(status) ==
    IF status >= 200 /\ status < 300 THEN "2xx"
    ELSE IF status >= 400 /\ status < 500 THEN "4xx"
    ELSE IF status >= 500 THEN "5xx"
    ELSE "none"

\* ----------------------------------------------------------- the errors
\* (mutant) response.ok with the lower bound excluded
Ok_Exclusive(status) == status > 200 /\ status < 300

\* response.ok
Ok(status) == status >= 200 /\ status < 300

\* the `status >= 400 && status < 500` test of both variants
IsClientError(status) == status >= 400 /\ status < 500

\* new RaxAIError(body, status): optional chaining, 'unknown_error' default
RaxAIError(body, status) ==
    [class |-> "RaxAIError", status |-> status,
     type |-> IF body.hasError /\ body.etype # "none"
              THEN body.etype ELSE "unknown_error"]

\* new RaxAIAPIError(body, status): reads body.error.message unguarded, so
\* a body without an `error` member makes the constructor throw a TypeError
RaxAIAPIError(body, status) ==
    IF body.hasError
    THEN [class |-> "RaxAIAPIError", status |-> status,
          type |-> IF body.etype # "none" THEN body.etype ELSE "undefined"]
    ELSE [class |-> "TypeError"]

\* the final throw of makeRequest, after the loop
NetworkError == [class |-> "RaxAIAPIError", status |-> 0, type |-> "network_error"]

\* the plain Errors request throws (of the messages only their fixed part
\* is kept)
PlainError(msg) == [class |-> "Error", message |-> msg]

\* `error instanceof RaxAIError` / `error instanceof RaxAIAPIError`
IsApiError(e) == e.class \in {"RaxAIError", "RaxAIAPIError"}

\* what the transport makes fetch() or response.json() reject with
AbortError == [class |-> "AbortError"]
FetchError == [class |-> "FetchError"]
SyntaxError == [class |-> "SyntaxError"]

\* ------------------------------------------------------- the retry loop
\* (mutant) the loop condition, one attempt too many
LoopCond_OffByOne(c, a) ==
    IF c.variant = "ts" THEN a <= TsAttempts ELSE a <= c.retries + 1

\* the loop condition: `attempt < 3` / `attempt <= this.retries`
LoopCond(c, a) ==
    IF c.variant = "ts" THEN a < TsAttempts ELSE a <= c.retries

\* (mutant) a retry guard that also lets the last attempt sleep
MayRetry_Always(c, a) == TRUE

\* the retry guard: `attempt < 2` / `attempt < this.retries`
MayRetry(c, a) ==
    IF c.variant = "ts" THEN a < TsLastAttempt ELSE a < c.retries

\* the sleep before the next attempt
Backoff(c, a) ==
    IF c.variant = "ts" THEN TsBaseDelay * Pow2(a) ELSE c.retryDelay * Pow2(a)

Sleep(ms) == [act |-> "sleep", ms |-> ms]
Throw(e) == [act |-> "throw", error |-> e]
Return(r) == [act |-> "return", from |-> r]

\* (mutant) the catch block without its `instanceof` rethrow
Catch_NoRethrow(c, a, e) ==
    IF c.variant = "ts"
    THEN IF e.class = "AbortError"
         THEN IF MayRetry(c, a) THEN Sleep(Backoff(c, a))
              ELSE Throw(PlainError("Request timeout"))
         ELSE IF MayRetry(c, a) THEN Sleep(Backoff(c, a))
              ELSE Throw(PlainError("Network error"))
    ELSE IF MayRetry(c, a) THEN Sleep(Backoff(c, a))
         ELSE IF LoopCond(c, a + 1) THEN [act |-> "next"]
              ELSE Throw(NetworkError)

\* the catch block, entered with error e during attempt a
Catch(c, a, e) ==
    IF IsApiError(e) THEN Throw(e)
    ELSE IF c.variant = "ts"
    THEN IF e.class = "AbortError"
         THEN IF MayRetry(c, a) THEN Sleep(Backoff(c, a))
              ELSE Throw(PlainError("Request timeout"))
         ELSE IF MayRetry(c, a) THEN Sleep(Backoff(c, a))
              ELSE Throw(PlainError("Network error"))
    ELSE IF MayRetry(c, a) THEN Sleep(Backoff(c, a))
         \* falls out of the catch: attempt++, the loop condition fails,
         \* and the throw after the loop runs
         ELSE IF LoopCond(c, a + 1) THEN [act |-> "next"]
              ELSE Throw(NetworkError)

\* the code after `await response.json()` has resolved, for response r
OnResult(c, a, r) ==
    IF Ok(r.status) THEN Return(a)
    ELSE LET error == IF c.variant = "ts"
                      THEN RaxAIError(r.body, r.status)
                      ELSE RaxAIAPIError(r.body, r.status)
         IN  IF ~IsApiError(error) THEN Catch(c, a, error)
             ELSE IF IsClientError(r.status) THEN Catch(c, a, error)
             ELSE IF MayRetry(c, a) THEN Sleep(Backoff(c, a))
             ELSE Catch(c, a, error)

\* ------------------------------------------------------------- the state
\* the state of one Request Executor call
VARIABLES
    config,     \* the object given to the constructor
    client,     \* the fields the constructor stored
    pc,         \* where the call is: idle, fetch, json, sleep, done
    attempt,    \* the loop counter
    resp,       \* the most recent response fetch() resolved with
    timers,     \* attempts whose timeout timer is armed
    aborted,    \* attempts whose AbortController was aborted
    result,     \* what the caller observes
    calls,      \* HTTP calls issued so far
    inflight,   \* HTTP calls issued and neither finished nor aborted
    delays,     \* the sleeps taken, in order
    hist        \* how each finished attempt ended

Pending == [kind |-> "pending"]

\* the state of one chatStream call (src/src/client.ts, lines 95-167)
VARIABLES
    sWire,      \* what the server will send as the body: line ids, tail id
    sPc,        \* where the generator is
    sResp,      \* the initial response of the streaming call
    sPos,       \* how much of the body text the reader has delivered
    sBuffer,    \* the line buffer
    sLines,     \* the complete lines of the current read not yet looked at
    sOut,       \* the chunks the consumer has received, in order
    sResult,    \* how the sequence ended, as the consumer observes it
    sCalls,     \* HTTP calls issued by the streaming call
    sTimer,     \* the timeout timer: none, armed, cleared, fired
    sConn       \* the response body: none, open (reader held), closed

reqVars == <<config, client, pc, attempt, resp, timers, aborted, result,
             calls, inflight, delays, hist>>

streamVars == <<sWire, sPc, sResp, sPos, sBuffer, sLines, sOut, sResult,
                sCalls, sTimer, sConn>>

\* the client object and what its public operations did
VARIABLES
    oConfig,    \* the object given to `new RaxAI(config)`
    oClient,    \* the fields the constructor stored, or no client
    oSent,      \* the HTTP request most recently put on the wire
    oLast,      \* the most recent operation and its outcome
    oSeen,      \* what getConfig() last returned
    oReq,       \* the caller's request object: as passed, and as it is now
    oKeys       \* the credential each HTTP call of the request carried

objVars == <<oConfig, oClient, oSent, oLast, oSeen, oReq, oKeys>>

vars == <<reqVars, streamVars, objVars>>

\* no streaming call has been made
StreamIdle ==
    /\ sWire = [lines |-> <<>>, tail |-> 0]
    /\ sPc = "idle"
    /\ sResp = NoResponse
    /\ sPos = 0
    /\ sBuffer = <<>>
    /\ sLines = <<>>
    /\ sOut = <<>>
    /\ sResult = Pending
    /\ sCalls = 0
    /\ sTimer = "none"
    /\ sConn = "none"

NoCall == [op |-> "none"]
NoSeen == [seen |-> FALSE]
NoArg == [passed |-> "none"]

\* no operation has been invoked on the client object
ObjIdle ==
    /\ oSent = NoCall
    /\ oLast = NoCall
    /\ oSeen = NoSeen
    /\ oReq = NoArg
    /\ oKeys = <<>>

\* the object layer is left out: requests are followed from request() on
ObjUnused ==
    /\ oConfig = [m \in {} |-> 0]
    /\ oClient = [made |-> FALSE]
    /\ ObjIdle

Init ==
    /\ StreamIdle
    /\ ObjUnused
    /\ \E v \in Variants :
          /\ config \in (IF v = "dist" THEN Configs ELSE {[r \in {} |-> 0]})
          /\ client = Construct(v, config)
    /\ pc = "idle"
    /\ attempt = 0
    /\ resp = NoResponse
    /\ timers = {}
    /\ aborted = {}
    /\ result = Pending
    /\ calls = 0
    /\ inflight = 0
    /\ delays = <<>>
    /\ hist = <<>>

\* the head of the loop at attempt a: arm the timer and call fetch(), or
\* leave the loop and run the throw that follows it; fl and tm are the
\* calls in flight and the armed timers at that point
Enter(a, fl, tm) ==
    /\ attempt' = a
    /\ IF LoopCond(client, a)
       THEN /\ pc' = "fetch"
            /\ calls' = calls + 1
            /\ inflight' = fl + 1
            /\ timers' = tm \cup {a}
            /\ UNCHANGED <<result, delays>>
       ELSE /\ pc' = "done"
            /\ result' = [kind |-> "throw",
                          error |-> IF client.variant = "ts"
                                    THEN PlainError("Request failed after 3 attempts")
                                    ELSE NetworkError]
            /\ inflight' = fl
            /\ timers' = tm
            /\ UNCHANGED <<calls, delays>>

\* carry out what the loop body decided
Do(step, fl, tm) ==
    CASE step.act = "sleep" ->
            /\ pc' = "sleep"
            /\ delays' = Append(delays, step.ms)
            /\ inflight' = fl
            /\ timers' = tm
            /\ UNCHANGED <<attempt, result, calls>>
      [] step.act = "throw" ->
            /\ pc' = "done"
            /\ result' = [kind |-> "throw", error |-> step.error]
            /\ inflight' = fl
            /\ timers' = tm
            /\ UNCHANGED <<attempt, calls, delays>>
      [] step.act = "return" ->
            /\ pc' = "done"
            /\ result' = [kind |-> "return", from |-> step.from]
            /\ inflight' = fl
            /\ timers' = tm
            /\ UNCHANGED <<attempt, calls, delays>>
      [] step.act = "next" -> Enter(attempt + 1, fl, tm)

\* clearTimeout(timeoutId) in the catch block: request has it, makeRequest
\* declares timeoutId inside the try and does not
CatchTimers(c, a, tm) == IF c.variant = "ts" THEN tm \ {a} ELSE tm

\* request(endpoint, data) / makeRequest(endpoint, data) is called
Call ==
    /\ pc = "idle"
    /\ Enter(0, inflight, timers)
    /\ UNCHANGED <<config, client, resp, aborted, hist>>

\* fetch() resolves with a response: clearTimeout, then await json()
FetchResolve(r) ==
    /\ pc = "fetch"
    /\ attempt \notin aborted
    /\ pc' = "json"
    /\ resp' = r
    /\ timers' = timers \ {attempt}
    /\ UNCHANGED <<config, client, attempt, aborted, result,
                   calls, inflight, delays, hist>>

\* fetch() rejects: connection refused, DNS, reset
FetchReject ==
    /\ pc = "fetch"
    /\ attempt \notin aborted
    /\ hist' = Append(hist, [how |-> "transport", class |-> "none"])
    /\ Do(Catch(client, attempt, FetchError), inflight - 1,
          CatchTimers(client, attempt, timers))
    /\ UNCHANGED <<config, client, resp, aborted>>

\* a timeout timer fires: controller.abort() of the attempt that armed it
TimerFire(k) ==
    /\ k \in timers
    /\ timers' = timers \ {k}
    /\ aborted' = aborted \cup {k}
    /\ UNCHANGED <<config, client, pc, attempt, resp, result,
                   calls, inflight, delays, hist>>

\* fetch() rejects with AbortError because its signal was aborted
FetchAbort ==
    /\ pc = "fetch"
    /\ attempt \in aborted
    /\ hist' = Append(hist, [how |-> "timeout", class |-> "none"])
    /\ Do(Catch(client, attempt, AbortError), inflight - 1,
          CatchTimers(client, attempt, timers))
    /\ UNCHANGED <<config, client, resp, aborted>>

\* response.json() resolves
JsonResolve ==
    /\ pc = "json"
    /\ resp.body.decodable
    /\ hist' = Append(hist, [how |-> "response", class |-> StatusClass(resp.status)])
    /\ Do(OnResult(client, attempt, resp), inflight - 1, timers)
    /\ UNCHANGED <<config, client, resp, aborted>>

\* response.json() rejects: the body is not JSON
JsonReject ==
    /\ pc = "json"
    /\ ~resp.body.decodable
    /\ hist' = Append(hist, [how |-> "undecodable", class |-> StatusClass(resp.status)])
    /\ Do(Catch(client, attempt, SyntaxError), inflight - 1,
          CatchTimers(client, attempt, timers))
    /\ UNCHANGED <<config, client, resp, aborted>>

\* the backoff sleep resolves: continue, attempt++
SleepDone ==
    /\ pc = "sleep"
    /\ Enter(attempt + 1, inflight, timers)
    /\ UNCHANGED <<config, client, resp, aborted, hist>>

Next ==
    \/ Call /\ UNCHANGED <<streamVars, objVars>>
    \/ \E r \in Responses : FetchResolve(r) /\ UNCHANGED <<streamVars, objVars>>
    \/ FetchReject /\ UNCHANGED <<streamVars, objVars>>
    \/ \E k \in timers : TimerFire(k) /\ UNCHANGED <<streamVars, objVars>>
    \/ FetchAbort /\ UNCHANGED <<streamVars, objVars>>
    \/ JsonResolve /\ UNCHANGED <<streamVars, objVars>>
    \/ JsonReject /\ UNCHANGED <<streamVars, objVars>>
    \/ SleepDone /\ UNCHANGED <<streamVars, objVars>>

Spec == Init /\ [][Next]_vars

\* ==================================================== the Stream Decoder
\* RaxAI.chatStream (src/src/client.ts, lines 95-167)

\* ---------------------------------------------------------------- bounds
\* most complete lines the server sends in one body
MaxLines == 3

\* ----------------------------------------------------------- the wire
\* Body text is a sequence of tokens, each a few bytes that one read
\* delivers whole; a read boundary may fall between any two tokens.
NL == "\n"

\* the event-data prefix 'data: ', in two tokens
Prefix == <<"da", "ta: ">>

\* The lines a server sends, without their newline, each with what it is:
\* a data line with a content delta, a data line whose JSON has no content,
\* the [DONE] sentinel, a data line whose payload is not JSON, a comment
\* (keep-alive) line, a blank line.
LineCatalogue ==
    << [text |-> Prefix \o <<"{", "He", "}">>, kind |-> "content", content |-> "He"],
       [text |-> Prefix \o <<"{", "llo", "}">>, kind |-> "content", content |-> "llo"],
       [text |-> Prefix \o <<"{", "}">>, kind |-> "skip", content |-> ""],
       [text |-> Prefix \o <<"[DO", "NE]">>, kind |-> "done", content |-> ""],
       [text |-> Prefix \o <<"{", "He">>, kind |-> "skip", content |-> ""],
       [text |-> <<":ping">>, kind |-> "skip", content |-> ""],
       [text |-> <<>>, kind |-> "skip", content |-> ""] >>

LineIds == 1 .. Len(LineCatalogue)

\* an unterminated last line: none (0), a content line, the sentinel
TailIds == {0, 1, 4}

RECURSIVE SeqsUpTo(_, _)
SeqsUpTo(S, n) ==
    IF n = 0 THEN {<<>>}
    ELSE LET shorter == SeqsUpTo(S, n - 1)
         IN  shorter \cup {Append(q, x) : q \in shorter, x \in S}

\* the bodies a server may send
Wires == {[lines |-> ls, tail |-> t] : ls \in SeqsUpTo(LineIds, MaxLines), t \in TailIds}

\* the text of a body
RECURSIVE LinesText(_)
LinesText(ids) ==
    IF ids = <<>> THEN <<>>
    ELSE LineCatalogue[Head(ids)].text \o <<NL>> \o LinesText(Tail(ids))

WireText(w) ==
    LinesText(w.lines) \o (IF w.tail = 0 THEN <<>> ELSE LineCatalogue[w.tail].text)

\* the initial responses of a streaming call
StreamStatuses == {200, 401, 429, 500}

\* the body of a success response is the event stream, not JSON
EventStream == [decodable |-> FALSE, hasError |-> FALSE, etype |-> "none"]

StreamResponses ==
    {[status |-> st, body |-> b, retryAfter |-> 0] :
         st \in StreamStatuses \ {200}, b \in Bodies}
    \cup {[status |-> 200, body |-> EventStream, retryAfter |-> 0]}

\* the longest body text, so the longest read
MaxRead == MaxLines * (Len(Prefix) + 4) + Len(Prefix) + 3

\* --------------------------------------------------------- the decoder
\* the index of the first newline of text, 0 if there is none
RECURSIVE FirstNL(_, _)
FirstNL(text, i) ==
    IF i > Len(text) THEN 0
    ELSE IF text[i] = NL THEN i ELSE FirstNL(text, i + 1)

\* (mutant) a split that keeps the text after the last newline as a line
RECURSIVE Split_Eager(_)
Split_Eager(text) ==
    LET i == FirstNL(text, 1)
    IN  IF i = 0 THEN [lines |-> IF text = <<>> THEN <<>> ELSE <<text>>, rest |-> <<>>]
        ELSE LET more == Split_Eager(SubSeq(text, i + 1, Len(text)))
             IN  [lines |-> <<SubSeq(text, 1, i - 1)>> \o more.lines,
                  rest |-> more.rest]

\* buffer.split('\n'); buffer = lines.pop() || '': the complete lines and
\* the text after the last newline
RECURSIVE Split(_)
Split(text) ==
    LET i == FirstNL(text, 1)
    IN  IF i = 0 THEN [lines |-> <<>>, rest |-> text]
        ELSE LET more == Split(SubSeq(text, i + 1, Len(text)))
             IN  [lines |-> <<SubSeq(text, 1, i - 1)>> \o more.lines,
                  rest |-> more.rest]

\* line.startsWith('data: ')
StartsWithData(line) ==
    Len(line) >= Len(Prefix) /\ SubSeq(line, 1, Len(Prefix)) = Prefix

\* line.slice(6)
Slice6(line) == SubSeq(line, Len(Prefix) + 1, Len(line))

\* data === '[DONE]'
IsDone(data) == data = <<"[DO", "NE]">>

\* (mutant) a parser that accepts a payload whose closing brace is missing
JsonParse_Lenient(data) ==
    IF Len(data) \in {2, 3} /\ data[1] = "{"
    THEN [ok |-> TRUE, content |-> IF data[2] = "}" THEN "" ELSE data[2]]
    ELSE [ok |-> FALSE, content |-> ""]

\* JSON.parse(data) and parsed.choices?.[0]?.delta?.content || '': a payload
\* is JSON when it is "{" ... "}" around at most one content token
JsonParse(data) ==
    IF Len(data) \in {2, 3} /\ data[1] = "{" /\ data[Len(data)] = "}"
       /\ (Len(data) = 3 => data[2] \notin {"{", "}", NL})
    THEN [ok |-> TRUE, content |-> IF Len(data) = 3 THEN data[2] ELSE ""]
    ELSE [ok |-> FALSE, content |-> ""]

ContentChunk(c) == [content |-> c, done |-> FALSE]
TerminalChunk == [content |-> "", done |-> TRUE]

\* (mutant) a loop body that yields the delta even when it is empty
LineStep_EmitEmpty(line) ==
    IF ~StartsWithData(line) THEN [act |-> "skip"]
    ELSE LET data == Slice6(line)
         IN  IF IsDone(data)
             THEN [act |-> "yield", chunk |-> TerminalChunk, next |-> "finish"]
             ELSE LET parsed == JsonParse(data)
                  IN  IF parsed.ok
                      THEN [act |-> "yield", chunk |-> ContentChunk(parsed.content),
                            next |-> "continue"]
                      ELSE [act |-> "skip"]

\* (mutant) the sentinel branch without its `return`
LineStep_NoReturn(line) ==
    IF ~StartsWithData(line) THEN [act |-> "skip"]
    ELSE LET data == Slice6(line)
         IN  IF IsDone(data)
             THEN [act |-> "yield", chunk |-> TerminalChunk, next |-> "continue"]
             ELSE LET parsed == JsonParse(data)
                  IN  IF parsed.ok /\ parsed.content # ""
                      THEN [act |-> "yield", chunk |-> ContentChunk(parsed.content),
                            next |-> "continue"]
                      ELSE [act |-> "skip"]

\* the body of the `for (const line of lines)` loop for one line: go on to
\* the next line, or yield a chunk and then go on or return
LineStep(line) ==
    IF ~StartsWithData(line) THEN [act |-> "skip"]
    ELSE LET data == Slice6(line)
         IN  IF IsDone(data)
             THEN [act |-> "yield", chunk |-> TerminalChunk, next |-> "finish"]
             ELSE LET parsed == JsonParse(data)
                  IN  IF parsed.ok /\ parsed.content # ""
                      THEN [act |-> "yield", chunk |-> ContentChunk(parsed.content),
                            next |-> "continue"]
                      ELSE [act |-> "skip"]

\* (mutant) a for loop that a line without a chunk ends
RunLines_StopAtSkip(lines) ==
    IF lines = <<>> THEN [act |-> "read", rest |-> <<>>]
    ELSE LET st == LineStep(Head(lines))
         IN  IF st.act = "skip" THEN [act |-> "read", rest |-> <<>>]
             ELSE [act |-> "yield", chunk |-> st.chunk, next |-> st.next,
                   rest |-> Tail(lines)]

\* run the for loop over lines up to its next yield, or to its end and
\* so to the next reader.read()
RECURSIVE RunLines(_)
RunLines(lines) ==
    IF lines = <<>> THEN [act |-> "read", rest |-> <<>>]
    ELSE LET st == LineStep(Head(lines))
         IN  IF st.act = "skip" THEN RunLines(Tail(lines))
             ELSE [act |-> "yield", chunk |-> st.chunk, next |-> st.next,
                   rest |-> Tail(lines)]

\* (mutant) a loop that parses what is left in the buffer on close
ReadStep_FlushOnClose(buffer, r) ==
    IF r.done
    THEN LET st == LineStep(buffer)
         IN  [act |-> "yield",
              chunk |-> IF st.act = "yield" THEN st.chunk ELSE TerminalChunk,
              next |-> "finish", rest |-> <<>>, buffer |-> <<>>]
    ELSE LET sp == Split(buffer \o r.value)
             run == RunLines(sp.lines)
         IN  IF run.act = "read"
             THEN [act |-> "read", rest |-> <<>>, buffer |-> sp.rest]
             ELSE [act |-> "yield", chunk |-> run.chunk, next |-> run.next,
                   rest |-> run.rest, buffer |-> sp.rest]

\* (mutant) a loop that yields a chunk without the terminal flag on close
ReadStep_NoTerminalFlag(buffer, r) ==
    IF r.done
    THEN [act |-> "yield", chunk |-> ContentChunk(""), next |-> "finish",
          rest |-> <<>>, buffer |-> buffer]
    ELSE LET sp == Split(buffer \o r.value)
             run == RunLines(sp.lines)
         IN  IF run.act = "read"
             THEN [act |-> "read", rest |-> <<>>, buffer |-> sp.rest]
             ELSE [act |-> "yield", chunk |-> run.chunk, next |-> run.next,
                   rest |-> run.rest, buffer |-> sp.rest]

\* one turn of `while (true)` on what reader.read() resolved with: the
\* terminal chunk and break when done, else append, split and run the lines
ReadStep(buffer, r) ==
    IF r.done
    THEN [act |-> "yield", chunk |-> TerminalChunk, next |-> "finish",
          rest |-> <<>>, buffer |-> buffer]
    ELSE LET sp == Split(buffer \o r.value)
             run == RunLines(sp.lines)
         IN  IF run.act = "read"
             THEN [act |-> "read", rest |-> <<>>, buffer |-> sp.rest]
             ELSE [act |-> "yield", chunk |-> run.chunk, next |-> run.next,
                   rest |-> run.rest, buffer |-> sp.rest]

\* response.json().catch(() => ({error: {message, type: 'server_error'}}))
ErrorData(body) ==
    IF body.decodable THEN body
    ELSE [decodable |-> TRUE, hasError |-> TRUE, etype |-> "server_error"]

\* (mutant) a catch block that swallows the error and ends the sequence
StreamCatch_Swallow(e) == [act |-> "return"]

\* the catch block of chatStream: rethrow a RaxAIError, wrap anything else
StreamCatch(e) ==
    IF e.class = "RaxAIError" THEN Throw(e)
    ELSE Throw(PlainError("Stream error"))

\* (mutant) isRateLimited() by the status alone
IsRateLimited_StatusOnly(e) == e.status = 429

\* isRateLimited()
IsRateLimited(e) == e.status = 429 \/ e.type = "rate_limit_exceeded"

\* isAuthError()
IsAuthError(e) == e.status = 401 \/ e.type = "authentication_error"

\* isServerError()
IsServerError(e) == e.status >= 500

\* ------------------------------------------------------------ the steps
\* the generator finishes: by a throw, or by running to its end
SFinish(step) ==
    /\ sPc' = "done"
    /\ sResult' = IF step.act = "throw"
                  THEN [kind |-> "throw", error |-> step.error]
                  ELSE [kind |-> "return"]

\* the generator suspends at a yield or goes on to the next read
SApply(step) ==
    /\ sLines' = step.rest
    /\ IF step.act = "yield"
       THEN /\ sOut' = Append(sOut, step.chunk)
            /\ sPc' = IF step.next = "finish" THEN "yieldedLast" ELSE "yielded"
       ELSE /\ sOut' = sOut
            /\ sPc' = "read"

\* the consumer's first next(): arm the timer, call fetch
SStart ==
    /\ sPc = "idle"
    /\ sPc' = "fetch"
    /\ sTimer' = "armed"
    /\ sCalls' = sCalls + 1
    /\ UNCHANGED <<sWire, sResp, sPos, sBuffer, sLines, sOut, sResult, sConn>>

\* fetch() resolves with the initial response: clearTimeout, then the
\* status test, the null-body test, getReader()
SFetchResolve(r, w, hasBody) ==
    /\ sPc = "fetch"
    /\ sTimer = "armed"
    /\ sTimer' = "cleared"
    /\ sResp' = r
    /\ IF ~Ok(r.status)
       THEN /\ sPc' = "errjson"
            /\ UNCHANGED <<sWire, sResult, sConn>>
       ELSE IF ~hasBody
       THEN /\ SFinish(StreamCatch(PlainError("Response body is null")))
            /\ UNCHANGED <<sWire, sConn>>
       ELSE /\ sPc' = "read"
            /\ sWire' = w
            /\ sConn' = "open"
            /\ UNCHANGED sResult
    /\ UNCHANGED <<sPos, sBuffer, sLines, sOut, sCalls>>

\* the error body of a non-success response was read, as JSON or not
SErrJson ==
    /\ sPc = "errjson"
    /\ SFinish(StreamCatch(RaxAIError(ErrorData(sResp.body), sResp.status)))
    /\ UNCHANGED <<sWire, sResp, sPos, sBuffer, sLines, sOut, sCalls, sTimer, sConn>>

\* fetch() rejects: the catch block clears the timer
SFetchReject ==
    /\ sPc = "fetch"
    /\ sTimer = "armed"
    /\ sTimer' = "cleared"
    /\ SFinish(StreamCatch(FetchError))
    /\ UNCHANGED <<sWire, sResp, sPos, sBuffer, sLines, sOut, sCalls, sConn>>

\* the timeout timer fires: controller.abort()
STimerFire ==
    /\ sTimer = "armed"
    /\ sTimer' = "fired"
    /\ UNCHANGED <<sWire, sPc, sResp, sPos, sBuffer, sLines, sOut, sResult,
                   sCalls, sConn>>

\* fetch() rejects with AbortError because its signal was aborted
SFetchAbort ==
    /\ sPc = "fetch"
    /\ sTimer = "fired"
    /\ SFinish(StreamCatch(AbortError))
    /\ UNCHANGED <<sWire, sResp, sPos, sBuffer, sLines, sOut, sCalls, sTimer, sConn>>

\* reader.read() resolves with the next n tokens of the body
SRead(n) ==
    /\ sPc = "read"
    /\ sConn = "open"
    /\ sPos + n <= Len(WireText(sWire))
    /\ LET value == SubSeq(WireText(sWire), sPos + 1, sPos + n)
           step == ReadStep(sBuffer, [done |-> FALSE, value |-> value])
       IN  /\ sBuffer' = step.buffer
           /\ SApply(step)
    /\ sPos' = sPos + n
    /\ UNCHANGED <<sWire, sResp, sResult, sCalls, sTimer, sConn>>

\* reader.read() resolves with done: the server sent the whole body and
\* closed
SClose ==
    /\ sPc = "read"
    /\ sConn = "open"
    /\ sPos = Len(WireText(sWire))
    /\ sConn' = "closed"
    /\ LET step == ReadStep(sBuffer, [done |-> TRUE])
       IN  /\ sBuffer' = step.buffer
           /\ SApply(step)
    /\ UNCHANGED <<sWire, sResp, sPos, sResult, sCalls, sTimer>>

\* (mutant) a read failure that hands out a terminal chunk before it throws
SReadError_Terminal ==
    /\ sPc = "read"
    /\ sConn = "open"
    /\ sConn' = "errored"
    /\ sOut' = Append(sOut, TerminalChunk)
    /\ SFinish(StreamCatch(FetchError))
    /\ UNCHANGED <<sWire, sResp, sPos, sBuffer, sLines, sCalls, sTimer>>

\* reader.read() rejects: the connection broke mid-stream
SReadError ==
    /\ sPc = "read"
    /\ sConn = "open"
    /\ sConn' = "errored"
    /\ SFinish(StreamCatch(FetchError))
    /\ UNCHANGED <<sWire, sResp, sPos, sBuffer, sLines, sOut, sCalls, sTimer>>

\* the consumer's next() after a chunk: go on with the for loop, or return
\* (after the sentinel) or break (after the close)
SResume ==
    /\ sPc \in {"yielded", "yieldedLast"}
    /\ IF sPc = "yieldedLast"
       THEN /\ SFinish([act |-> "return"])
            /\ UNCHANGED <<sLines, sOut>>
       ELSE /\ SApply(RunLines(sLines))
            /\ UNCHANGED sResult
    /\ UNCHANGED <<sWire, sResp, sPos, sBuffer, sCalls, sTimer, sConn>>

\* the consumer stops iterating at a chunk (break out of for await): the
\* generator is finished at its yield, no statement after it runs
SReturn ==
    /\ sPc \in {"yielded", "yieldedLast"}
    /\ sPc' = "done"
    /\ sResult' = [kind |-> "stopped"]
    /\ UNCHANGED <<sWire, sResp, sPos, sBuffer, sLines, sOut, sCalls, sTimer, sConn>>

\* a streaming call on a constructed src client; no request is made
StreamInit ==
    /\ StreamIdle
    /\ ObjUnused
    /\ ObjUnused
    /\ config = [r \in {} |-> 0]
    /\ client = Construct("ts", config)
    /\ pc = "idle"
    /\ attempt = 0
    /\ resp = NoResponse
    /\ timers = {}
    /\ aborted = {}
    /\ result = Pending
    /\ calls = 0
    /\ inflight = 0
    /\ delays = <<>>
    /\ hist = <<>>

StreamNext ==
    \/ SStart /\ UNCHANGED <<reqVars, objVars>>
    \/ /\ sPc = "fetch"
       /\ \E r \in StreamResponses, w \in Wires, hasBody \in BOOLEAN :
             SFetchResolve(r, w, hasBody)
       /\ UNCHANGED <<reqVars, objVars>>
    \/ SErrJson /\ UNCHANGED <<reqVars, objVars>>
    \/ SFetchReject /\ UNCHANGED <<reqVars, objVars>>
    \/ STimerFire /\ UNCHANGED <<reqVars, objVars>>
    \/ SFetchAbort /\ UNCHANGED <<reqVars, objVars>>
    \/ /\ sPc = "read"
       /\ \E n \in 1 .. MaxRead : SRead(n)
       /\ UNCHANGED <<reqVars, objVars>>
    \/ SClose /\ UNCHANGED <<reqVars, objVars>>
    \/ SReadError /\ UNCHANGED <<reqVars, objVars>>
    \/ SResume /\ UNCHANGED <<reqVars, objVars>>
    \/ SReturn /\ UNCHANGED <<reqVars, objVars>>

SpecStream == StreamInit /\ [][StreamNext]_vars

\* ==================================================== the client object
\* the constructor and the public operations of RaxAI
\* (src/src/client.ts, lines 42-256; src/dist/client.js, lines 9-141),
\* and of the earlier source of the class, variant "earlier"
\* (src/unnamed/part_004, lines 116-233)

DefaultTimeout == 30000

\* a URL is a sequence of tokens, so that a trailing slash can be told
Slash == "/"
DefaultBaseURL(v) ==
    IF v = "dist" THEN <<"https://api.rax-ai.com">> ELSE <<"https://ai.raxcore.dev/api">>

\* what `${this.apiKey}` is when the member was never given
Undefined == "undefined"

\* the members a config object may carry, each optional
ConfigKeys == {"", "k1"}
ConfigURLs == {<<>>, <<"https://h">>, <<"https://h", Slash>>}
ConfigTimeouts == {0, 5000}

ObjConfigs ==
    {[m \in D |-> CASE m = "apiKey" -> k [] m = "baseURL" -> u [] OTHER -> t] :
        D \in SUBSET {"apiKey", "baseURL", "timeout"},
        k \in ConfigKeys, u \in ConfigURLs, t \in ConfigTimeouts}

\* `!config.apiKey`
NoKey(cfg) == "apiKey" \notin DOMAIN cfg \/ cfg.apiKey = ""

\* `.replace(/\/$/, '')`
StripSlash(u) ==
    IF u # <<>> /\ u[Len(u)] = Slash THEN SubSeq(u, 1, Len(u) - 1) ELSE u

\* `config.baseURL || default`, `config.timeout || 30000`
BaseURLOf(v, cfg) ==
    IF "baseURL" \in DOMAIN cfg /\ cfg.baseURL # <<>> THEN cfg.baseURL
    ELSE DefaultBaseURL(v)

TimeoutOf(cfg) ==
    IF "timeout" \in DOMAIN cfg /\ cfg.timeout # 0 THEN cfg.timeout
    ELSE DefaultTimeout

\* new RaxAI(config): src throws without a key, dist stores what it is given
ConstructObject(v, cfg) ==
    IF v = "ts"
    THEN IF NoKey(cfg) THEN [made |-> FALSE]
         ELSE [made |-> TRUE, apiKey |-> cfg.apiKey,
               baseURL |-> StripSlash(BaseURLOf(v, cfg)),
               timeout |-> TimeoutOf(cfg)]
    ELSE [made |-> TRUE,
          apiKey |-> IF "apiKey" \in DOMAIN cfg THEN cfg.apiKey ELSE Undefined,
          baseURL |-> BaseURLOf(v, cfg),
          timeout |-> TimeoutOf(cfg)]

\* getConfig()
GetConfig(c, oc) ==
    IF c.variant = "dist"
    THEN [baseURL |-> oc.baseURL, timeout |-> oc.timeout,
          retries |-> c.retries, retryDelay |-> c.retryDelay]
    ELSE [baseURL |-> oc.baseURL, timeout |-> oc.timeout]

\* (mutant) a setApiKey that rebuilds the client from the defaults
SetApiKey_Rebuild(c, oc, k) ==
    [made |-> TRUE, apiKey |-> k, baseURL |-> DefaultBaseURL(c.variant),
     timeout |-> DefaultTimeout]

\* setApiKey(k), for a non-empty k
SetApiKey(c, oc, k) == [oc EXCEPT !.apiKey = k]

\* the chat requests a caller may pass
ChatRequests ==
    [messages : {"missing", "empty", "some"}, stream : {"absent", "false", "true"}]

\* no body: a GET, or data without members
NoBody == [messages |-> "missing", stream |-> "absent"]

\* `!request.messages || request.messages.length === 0`
NoMessages(req) == req.messages \in {"missing", "empty"}

\* { ...request, stream: true }
StreamRequest(req) == [req EXCEPT !.stream = "true"]

\* the caller's request object after op(req): chatStream of the earlier
\* variant assigns `request.stream = true` on it, every other operation
\* only reads it
Arg(v, op, req) ==
    [passed |-> req,
     now |-> IF v = "earlier" /\ op = "chatStream" THEN StreamRequest(req) ELSE req]

\* how the server behaves during one operation
ServerModes == {"ok", "rejects", "down", "unreachable", "slow"}

ServerResponse(mode) ==
    CASE mode = "ok" ->
            [status |-> 200, retryAfter |-> 0,
             body |-> [decodable |-> TRUE, hasError |-> FALSE, etype |-> "none"]]
      [] mode = "rejects" ->
            [status |-> 401, retryAfter |-> 0,
             body |-> [decodable |-> TRUE, hasError |-> TRUE,
                       etype |-> "authentication_error"]]
      [] OTHER ->
            [status |-> 503, retryAfter |-> 0,
             body |-> [decodable |-> TRUE, hasError |-> TRUE, etype |-> "server_error"]]

\* request / makeRequest run from attempt a to its outcome against a server
\* that behaves the same on every attempt
RECURSIVE Execute(_, _, _)
Execute(c, a, mode) ==
    IF ~LoopCond(c, a)
    THEN Throw(IF c.variant = "ts" THEN PlainError("Request failed after 3 attempts")
               ELSE NetworkError)
    ELSE LET step == CASE mode = "unreachable" -> Catch(c, a, FetchError)
                       [] mode = "slow" -> Catch(c, a, AbortError)
                       [] OTHER -> OnResult(c, a, ServerResponse(mode))
         IN  IF step.act \in {"sleep", "next"} THEN Execute(c, a + 1, mode)
             ELSE step

\* new RaxAIError(body, status) of the earlier variant, which reads
\* error.error.message unguarded
RaxAIErrorEarlier(body, status) ==
    IF body.hasError
    THEN [class |-> "RaxAIError", status |-> status,
          type |-> IF body.etype # "none" THEN body.etype ELSE "undefined"]
    ELSE [class |-> "TypeError"]

\* request() of the earlier variant, run from attempt a: its catch block
\* rethrows what it caught on the last attempt and sleeps otherwise
RECURSIVE RequestEarlier(_, _)
RequestEarlier(a, mode) ==
    IF ~(a < TsAttempts) THEN [act |-> "return"]
    ELSE LET caught(e) == IF IsApiError(e) \/ a = TsLastAttempt THEN Throw(e)
                          ELSE RequestEarlier(a + 1, mode)
         IN  CASE mode = "unreachable" -> caught(FetchError)
               [] mode = "slow" -> caught(AbortError)
               [] OTHER ->
                    LET r == ServerResponse(mode)
                        error == RaxAIErrorEarlier(r.body, r.status)
                    IN  IF Ok(r.status) THEN Return(a)
                        ELSE IF ~IsApiError(error) THEN caught(error)
                        ELSE IF IsClientError(r.status) THEN caught(error)
                        ELSE IF a < TsLastAttempt THEN RequestEarlier(a + 1, mode)
                        ELSE caught(error)

\* the request loop of the client's variant, run to its outcome
Run(c, mode) ==
    IF c.variant = "earlier" THEN RequestEarlier(0, mode) ELSE Execute(c, 0, mode)

\* chatStream run to its end against such a server, iterated by for await
StreamOutcome(mode) ==
    CASE mode = "unreachable" -> StreamCatch(FetchError)
      [] mode = "slow" -> StreamCatch(AbortError)
      [] mode = "ok" -> [act |-> "return"]
      [] OTHER -> LET r == ServerResponse(mode)
                  IN  StreamCatch(RaxAIError(ErrorData(r.body), r.status))

\* the request an operation puts on the wire
Sent(op, oc, body) == [op |-> op, bearer |-> oc.apiKey, body |-> body]

\* the outcome of an operation
Outcome(op, mode, step) == [op |-> op, server |-> mode, step |-> step]

\* ------------------------------------------------------ the operations
\* chat(request) / chat.completions.create(request)
OChat(req, mode) ==
    /\ oClient.made
    /\ oReq' = Arg(client.variant, "chat", req)
    /\ IF client.variant = "ts"
       THEN IF NoMessages(req)
            THEN /\ oLast' = Outcome("chat", mode,
                                     Throw(PlainError("Messages array is required")))
                 /\ UNCHANGED oSent
            ELSE /\ oSent' = Sent("chat", oClient, req)
                 /\ oLast' = Outcome("chat", mode, Execute(client, 0, mode))
       ELSE IF client.variant = "earlier"
       THEN /\ oSent' = Sent("chat", oClient, req)
            /\ oLast' = Outcome("chat", mode, RequestEarlier(0, mode))
       ELSE IF req.stream = "true"
            THEN /\ oLast' = Outcome("chat", mode,
                        Throw(RaxAIAPIError([decodable |-> TRUE, hasError |-> TRUE,
                                             etype |-> "invalid_request_error"], 400)))
                 /\ UNCHANGED oSent
            ELSE /\ oSent' = Sent("chat", oClient, req)
                 /\ oLast' = Outcome("chat", mode, Execute(client, 0, mode))
    /\ UNCHANGED <<oConfig, oClient, oSeen, oKeys>>

\* chatStream(request), iterated to its end / the createStream placeholder
\* and the chatStream of the earlier variant, which yield fixed chunks and
\* make no HTTP call
OChatStream(req, mode) ==
    /\ oClient.made
    /\ oReq' = Arg(client.variant, "chatStream", req)
    /\ IF client.variant = "ts"
       THEN /\ oSent' = Sent("chatStream", oClient, StreamRequest(req))
            /\ oLast' = Outcome("chatStream", mode, StreamOutcome(mode))
       ELSE /\ oLast' = Outcome("chatStream", mode, [act |-> "return"])
            /\ UNCHANGED oSent
    /\ UNCHANGED <<oConfig, oClient, oSeen, oKeys>>

\* getModels() / models.list()
OGetModels(mode) ==
    /\ oClient.made
    /\ oSent' = Sent("getModels", oClient, NoBody)
    /\ oLast' = Outcome("getModels", mode, Run(client, mode))
    /\ UNCHANGED <<oConfig, oClient, oSeen, oReq, oKeys>>

\* getUsage() / usage.get()
OGetUsage(mode) ==
    /\ oClient.made
    /\ oSent' = Sent("getUsage", oClient, NoBody)
    /\ oLast' = Outcome("getUsage", mode, Run(client, mode))
    /\ UNCHANGED <<oConfig, oClient, oSeen, oReq, oKeys>>

\* validateKey() / validateApiKey(): getModels() in a try with a bare catch
OValidateKey(mode) ==
    /\ oClient.made
    /\ oSent' = Sent("getModels", oClient, NoBody)
    /\ oLast' = Outcome("validateKey", mode,
                        [act |-> "return",
                         value |-> Run(client, mode).act = "return"])
    /\ UNCHANGED <<oConfig, oClient, oSeen, oReq, oKeys>>

\* getConfig()
OGetConfig ==
    /\ oClient.made
    /\ oSeen' = [seen |-> TRUE, value |-> GetConfig(client, oClient)]
    /\ UNCHANGED <<oConfig, oClient, oSent, oLast, oReq, oKeys>>

\* (mutant) a setApiKey without the test of its argument
OSetApiKey_NoCheck(k) ==
    /\ oClient.made
    /\ client.variant = "ts"
    /\ oClient' = SetApiKey(client, oClient, k)
    /\ oLast' = Outcome("setApiKey", "none", [act |-> "return"])
    /\ UNCHANGED <<oConfig, oSent, oSeen, oReq, oKeys>>

\* setApiKey(k), which only src has
OSetApiKey(k) ==
    /\ oClient.made
    /\ client.variant = "ts"
    /\ IF k = ""
       THEN /\ oLast' = Outcome("setApiKey", "none",
                                Throw(PlainError("API key is required")))
            /\ UNCHANGED oClient
       ELSE /\ oClient' = SetApiKey(client, oClient, k)
            /\ oLast' = Outcome("setApiKey", "none", [act |-> "return"])
    /\ UNCHANGED <<oConfig, oSent, oSeen, oReq, oKeys>>

\* no request is under way
ReqIdle ==
    /\ pc = "idle"
    /\ attempt = 0
    /\ resp = NoResponse
    /\ timers = {}
    /\ aborted = {}
    /\ result = Pending
    /\ calls = 0
    /\ inflight = 0
    /\ delays = <<>>
    /\ hist = <<>>

\* the variants of the client class: the two above and the earlier source
ObjVariants == Variants \cup {"earlier"}

\* new RaxAI(config) was evaluated, in one of the variants
ClientInit ==
    /\ \E v \in ObjVariants :
          /\ config = [r \in {} |-> 0]
          /\ client = Construct(v, config)
          /\ oConfig \in ObjConfigs
          /\ oClient = ConstructObject(v, oConfig)
    /\ ObjIdle
    /\ ReqIdle
    /\ StreamIdle

ClientNext ==
    \/ /\ \E req \in ChatRequests, mode \in ServerModes : OChat(req, mode)
       /\ UNCHANGED <<reqVars, streamVars>>
    \/ /\ \E req \in ChatRequests, mode \in ServerModes : OChatStream(req, mode)
       /\ UNCHANGED <<reqVars, streamVars>>
    \/ /\ \E mode \in ServerModes : OGetModels(mode)
       /\ UNCHANGED <<reqVars, streamVars>>
    \/ /\ \E mode \in ServerModes : OGetUsage(mode)
       /\ UNCHANGED <<reqVars, streamVars>>
    \/ /\ \E mode \in ServerModes : OValidateKey(mode)
       /\ UNCHANGED <<reqVars, streamVars>>
    \/ OGetConfig /\ UNCHANGED <<reqVars, streamVars>>
    \/ /\ \E k \in {"", "k2"} : OSetApiKey(k)
       /\ UNCHANGED <<reqVars, streamVars>>

SpecClient == ClientInit /\ [][ClientNext]_vars

\* ============================================== two operations at once
\* a request and a chatStream call under way on one src client: their steps
\* interleave at every await

\* the servers' answers while both are under way
PairResponses == {ServerResponse("ok"), ServerResponse("down")}

PairStreamResponses ==
    {[status |-> 200, body |-> EventStream, retryAfter |-> 0], ServerResponse("rejects")}

PairWires == {[lines |-> <<1, 2, 4>>, tail |-> 0], [lines |-> <<1>>, tail |-> 1]}

\* (mutant) a retry counter kept on the client object, which a streaming
\* call starting over resets
ReqFrame_SharedCounter ==
    /\ attempt' = 0
    /\ UNCHANGED <<config, client, pc, resp, timers, aborted, result,
                   calls, inflight, delays, hist>>

\* what a step of chatStream does to a request under way: url, attempt,
\* controller and timeoutId are locals of request
ReqFrame == UNCHANGED reqVars

\* what a step of request does to a streaming call under way: reader,
\* decoder, buffer and lines are locals of chatStream
StreamFrame == UNCHANGED streamVars

PairNext ==
    \/ Call /\ StreamFrame /\ UNCHANGED objVars
    \/ /\ \E r \in PairResponses : FetchResolve(r)
       /\ StreamFrame /\ UNCHANGED objVars
    \/ FetchReject /\ StreamFrame /\ UNCHANGED objVars
    \/ /\ \E k \in timers : TimerFire(k)
       /\ StreamFrame /\ UNCHANGED objVars
    \/ FetchAbort /\ StreamFrame /\ UNCHANGED objVars
    \/ JsonResolve /\ StreamFrame /\ UNCHANGED objVars
    \/ SleepDone /\ StreamFrame /\ UNCHANGED objVars
    \/ SStart /\ ReqFrame /\ UNCHANGED objVars
    \/ /\ sPc = "fetch"
       /\ \E r \in PairStreamResponses, w \in PairWires : SFetchResolve(r, w, TRUE)
       /\ ReqFrame /\ UNCHANGED objVars
    \/ SErrJson /\ ReqFrame /\ UNCHANGED objVars
    \/ SFetchReject /\ ReqFrame /\ UNCHANGED objVars
    \/ STimerFire /\ ReqFrame /\ UNCHANGED objVars
    \/ SFetchAbort /\ ReqFrame /\ UNCHANGED objVars
    \/ /\ sPc = "read"
       /\ \E n \in 1 .. MaxRead : SRead(n)
       /\ ReqFrame /\ UNCHANGED objVars
    \/ SClose /\ ReqFrame /\ UNCHANGED objVars
    \/ SReadError /\ ReqFrame /\ UNCHANGED objVars
    \/ SResume /\ ReqFrame /\ UNCHANGED objVars
    \/ SReturn /\ ReqFrame /\ UNCHANGED objVars

SpecPair == StreamInit /\ [][PairNext]_vars

\* ============================== a request while the credential is replaced
\* one call of request on a client of src/src/client.ts constructed with
\* the key "k1", and setApiKey calls made at any point of it

SetKeys == {"", "k1", "k2"}

\* (mutant) a header built once, from the credential of the first attempt
Bearer_Captured(oc, keys) == IF keys = <<>> THEN oc.apiKey ELSE keys[1]

\* `Bearer ${this.apiKey}`, evaluated in the loop body of each attempt
Bearer(oc, keys) == oc.apiKey

\* what a step of request adds to the credentials sent: the header of the
\* HTTP call it issues, if it issues one
Stamp ==
    /\ oKeys' = IF calls' = calls + 1 THEN Append(oKeys, Bearer(oClient, oKeys))
                ELSE oKeys
    /\ UNCHANGED <<oConfig, oClient, oSent, oLast, oSeen, oReq>>

KeyInit ==
    /\ config = [r \in {} |-> 0]
    /\ client = Construct("ts", config)
    /\ oConfig = [m \in {"apiKey"} |-> "k1"]
    /\ oClient = ConstructObject("ts", oConfig)
    /\ ObjIdle
    /\ ReqIdle
    /\ StreamIdle

KeyNext ==
    \/ Call /\ Stamp /\ StreamFrame
    \/ /\ \E r \in PairResponses : FetchResolve(r)
       /\ Stamp /\ StreamFrame
    \/ FetchReject /\ Stamp /\ StreamFrame
    \/ /\ \E k \in timers : TimerFire(k)
       /\ Stamp /\ StreamFrame
    \/ FetchAbort /\ Stamp /\ StreamFrame
    \/ JsonResolve /\ Stamp /\ StreamFrame
    \/ SleepDone /\ Stamp /\ StreamFrame
    \/ /\ \E k \in SetKeys : OSetApiKey(k)
       /\ ReqFrame /\ StreamFrame

SpecKey == KeyInit /\ [][KeyNext]_vars

\* ====================================================== the claims
\* the retry count the documentation promises for request (client.ts has no
\* retries setting: "3 automatic retries")
DocRetries == 3

\* the client's retry count
RetryCount == IF client.variant = "ts" THEN DocRetries ELSE client.retries

\* the documented base delay of the client, in ms
BaseDelay == IF client.variant = "ts" THEN TsBaseDelay ELSE client.retryDelay

Done == pc = "done"
Threw == Done /\ result.kind = "throw"
ThrewApiError == Threw /\ IsApiError(result.error)

\* attempt outcomes
GotResponse(h) == h.how \in {"response", "undecodable"}
NoResponseAtAll(h) == h.how \in {"transport", "timeout"}
Transient(h) == NoResponseAtAll(h) \/ (GotResponse(h) /\ h.class = "5xx")

\* the type the error taxonomy gives a decoded error body
TypeOf(body) == IF body.etype # "none" THEN body.etype
                ELSE IF client.variant = "ts" THEN "unknown_error" ELSE "undefined"

\* C1: an attempt that received a 4xx response is the call's last: the call
\* has failed with an ApiError carrying that response's status and type, no
\* sleep followed it and no further HTTP call was issued.
C1_ClientErrorNeverRetried ==
    \A i \in 1 .. Len(hist) :
        (GotResponse(hist[i]) /\ hist[i].class = "4xx") =>
            /\ i = Len(hist)
            /\ calls = i
            /\ Len(delays) = i - 1
            /\ ThrewApiError
            /\ result.error.status = resp.status
            /\ result.error.type = TypeOf(resp.body)

\* C2: a call whose every attempt was answered with a 5xx status has, when
\* it fails, issued exactly retries+1 HTTP calls.
C2_ServerErrorCallCount ==
    (Done /\ hist # <<>>
          /\ \A i \in 1 .. Len(hist) : hist[i] = [how |-> "response", class |-> "5xx"])
        => (Threw /\ calls = RetryCount + 1)

\* C3: the k-th sleep (k = 0, 1, ...) lasts baseDelay * 2^k, the sleeps are
\* non-decreasing, and a call with default settings that fails on persistent
\* transient failure has slept 1s, 2s, 4s.
C3_BackoffSchedule ==
    /\ \A k \in 1 .. Len(delays) : delays[k] = BaseDelay * Pow2(k - 1)
    /\ \A k \in 1 .. Len(delays) - 1 : delays[k] <= delays[k + 1]
    /\ (Threw /\ DOMAIN config = {} /\ hist # <<>>
              /\ \A i \in 1 .. Len(hist) : Transient(hist[i]))
          => delays = <<1000, 2000, 4000>>

C5_ConfiguredRetryCount ==
    (Threw /\ "retries" \in DOMAIN config /\ hist # <<>>
           /\ \A i \in 1 .. Len(hist) : Transient(hist[i]))
        => calls = config.retries + 1

\* C6: an attempt that receives a success status with a decodable body ends
\* the call: the call returns that attempt's payload, issues no further
\* HTTP call, and the caller sees the return and none of the earlier
\* failures; conversely a call returns only from such an attempt.
C6_SuccessShortCircuits ==
    /\ \A i \in 1 .. Len(hist) :
          (hist[i].how = "response" /\ hist[i].class = "2xx") =>
              /\ i = Len(hist)
              /\ Done
              /\ result = [kind |-> "return", from |-> i - 1]
              /\ calls = i
              /\ inflight = 0
    /\ (Done /\ result.kind = "return") =>
          /\ hist # <<>>
          /\ hist[Len(hist)] = [how |-> "response", class |-> "2xx"]
          /\ StatusClass(resp.status) = "2xx" /\ resp.body.decodable
          /\ \A i \in 1 .. Len(hist) - 1 : hist[i].class # "2xx" \/ hist[i].how # "response"

\* the third attempt succeeds after a 5xx response and a timeout
C6_Witness ==
    /\ Done /\ result.kind = "return" /\ result.from = 2
    /\ hist[1] = [how |-> "response", class |-> "5xx"]
    /\ hist[2].how = "timeout"

\* C7: a first attempt answered 429 does not end a call that has retries
\* left: the response is retried like a 5xx one.
C7_RateLimitRetried ==
    (Len(hist) = 1 /\ hist[1].how = "response" /\ hist[1].class = "4xx"
                   /\ resp.status = 429 /\ resp.body.etype = "rate_limit_exceeded"
                   /\ RetryCount >= 1)
        => ~Done

\* C8: after a rate-limit response with a retry-after hint, the sleep before
\* the next attempt is at least the hint, and the error the call fails with
\* exposes the hint as retryAfter.
C8_RetryAfterHonoured ==
    /\ (pc = "sleep" /\ hist[Len(hist)].how = "response"
                     /\ resp.status = 429 /\ resp.retryAfter # 0)
          => delays[Len(delays)] >= 1000 * resp.retryAfter
    /\ (ThrewApiError /\ hist[Len(hist)].how = "response"
                      /\ resp.status = 429 /\ resp.retryAfter # 0)
          => /\ "retryAfter" \in DOMAIN result.error
             /\ result.error.retryAfter = resp.retryAfter

\* C9: a call whose every attempt failed without a response fails, once the
\* retries are exhausted, with an ApiError of status 0 and type network_error.
C9_NetworkErrorSurfaced ==
    (Done /\ hist # <<>> /\ \A i \in 1 .. Len(hist) : NoResponseAtAll(hist[i]))
        => /\ ThrewApiError
           /\ result.error.status = 0
           /\ result.error.type = "network_error"

\* the attempts a call can make at most: the loop bound of the variant
MaxAttempts == IF client.variant = "ts" THEN TsAttempts ELSE client.retries + 1

\* the call failed on its last possible attempt
Exhausted == Threw /\ Len(hist) = MaxAttempts

\* C10 (as claimed): when the retries are exhausted after a mix of 5xx error
\* responses and transport failures, with at least one response among them,
\* the error raised is the ApiError built from the most recently received
\* response: it carries that response's status and type.
C10_LastResponseSurfaced ==
    (/\ Exhausted
     /\ resp.body.hasError
     /\ \A i \in 1 .. Len(hist) :
            \/ NoResponseAtAll(hist[i])
            \/ hist[i] = [how |-> "response", class |-> "5xx"]
     /\ \E i \in 1 .. Len(hist) : hist[i].how = "response")
        => /\ ThrewApiError
           /\ result.error.status = resp.status
           /\ result.error.type = TypeOf(resp.body)

\* C10 (amended): when the retries are exhausted the final attempt alone
\* decides the error. If the final attempt received a response whose body
\* decoded to an error object, the error is the ApiError built from that
\* response; otherwise it is the network error of the variant (status 0 and
\* network_error in makeRequest, a plain Error in request) and carries
\* nothing of the responses earlier attempts received.
C10_FinalAttemptDecides ==
    Exhausted =>
        IF hist[Len(hist)].how = "response"
           /\ (client.variant = "ts" \/ resp.body.hasError)
        THEN /\ ThrewApiError
             /\ result.error.status = resp.status
             /\ result.error.status >= 400
             /\ result.error.type = TypeOf(resp.body)
        ELSE IF client.variant = "ts"
             THEN result.error.class = "Error"
             ELSE result.error = NetworkError

\* retries are exhausted by a 503 after a transport failure and a 500
C10_Witness ==
    /\ Exhausted /\ Len(hist) >= 3
    /\ hist[1].how = "transport"
    /\ hist[2] = [how |-> "response", class |-> "5xx"]
    /\ hist[Len(hist)] = [how |-> "response", class |-> "5xx"]
    /\ ThrewApiError /\ result.error.status = 503
    /\ result.error.type = "server_error"

\* ------------------------------------------------- the streaming claims
\* the streaming call is over, as its consumer sees it
SDone == sPc = "done"
SThrew == SDone /\ sResult.kind = "throw"

\* C11: every error a streaming call surfaces to its consumer (non-success
\* status, transport failure, timeout, mid-stream failure) is an ApiError,
\* so it carries a status and a type.
C11_StreamErrorsAreApiErrors ==
    SThrew => /\ IsApiError(sResult.error)
              /\ {"status", "type"} \subseteq DOMAIN sResult.error

\* C12: as long as an attempt of a request awaits the network, for the
\* response or for its body, its timeout is armed or has already aborted it,
\* so the timeout ends the attempt at the latest.
C12_AttemptEndedByTimeout ==
    pc \in {"fetch", "json"} => (attempt \in timers \/ attempt \in aborted)

\* C13: as long as a streaming call awaits the next read of the response
\* body, its timeout is armed or has already aborted the call, so the
\* timeout ends a stream on which the server neither sends nor closes.
C13_StreamBoundedByTimeout ==
    sPc = "read" => sTimer \in {"armed", "fired"}

\* what the wire format says a sequence of lines means: one content chunk
\* for each content line before the first sentinel line, in order
RECURSIVE Expected(_)
Expected(ids) ==
    IF ids = <<>> THEN <<>>
    ELSE LET l == LineCatalogue[Head(ids)]
         IN  IF l.kind = "done" THEN <<>>
             ELSE (IF l.kind = "content" THEN <<ContentChunk(l.content)>> ELSE <<>>)
                  \o Expected(Tail(ids))

IsPrefixOf(p, q) == Len(p) <= Len(q) /\ SubSeq(q, 1, Len(p)) = p

\* the positions of the terminal chunks the consumer has received
Terminals == {i \in 1 .. Len(sOut) : sOut[i].done}

\* the consumer iterated the sequence to its end
SExhausted == SDone /\ sResult.kind = "return"

Received == SubSeq(WireText(sWire), 1, sPos)

\* the number of newlines in a text
RECURSIVE NLCount(_)
NLCount(text) ==
    IF text = <<>> THEN 0
    ELSE (IF Head(text) = NL THEN 1 ELSE 0) + NLCount(Tail(text))

\* the text after the last newline of a text
RECURSIVE AfterLastNL(_)
AfterLastNL(text) ==
    IF text = <<>> THEN <<>>
    ELSE IF text[Len(text)] = NL THEN <<>>
    ELSE Append(AfterLastNL(SubSeq(text, 1, Len(text) - 1)), text[Len(text)])

\* the lines of the body whose newline has been delivered
CompleteLines == SubSeq(sWire.lines, 1, NLCount(Received))

\* C16: however the transport split the delivered text into reads, when
\* the call awaits its next read the chunks produced are those of the lines
\* whose newline has arrived, and the buffer holds exactly the text after
\* the last newline, unparsed; a body iterated to its end gave the chunks of
\* its newline-terminated lines and the terminal chunk, so an unterminated
\* last line is never parsed.
C16_SplitIndependent ==
    /\ (sPc = "read" /\ sConn = "open") =>
          /\ sBuffer = AfterLastNL(Received)
          /\ sOut = Expected(CompleteLines)
    /\ (SExhausted /\ sConn # "none") =>
          sOut = Expected(sWire.lines) \o <<TerminalChunk>>

\* a read ended inside the second line, after the first was emitted; and a
\* body with an unterminated content line was iterated to its end
C16_Witness ==
    \/ /\ sPc = "read"
       /\ sWire.lines = <<1, 2>>
       /\ sBuffer = Prefix \o <<"{">>
       /\ sOut = <<ContentChunk("He")>>
    \/ /\ SExhausted
       /\ sWire = [lines |-> <<2>>, tail |-> 1]
       /\ sOut = <<ContentChunk("llo"), TerminalChunk>>

\* C17: when the transport closes with no [DONE] line received, the call
\* has emitted exactly one terminal chunk, as its last chunk, and it ends
\* without an error.
C17_CloseEmitsTerminal ==
    sConn = "closed" =>
        /\ sPc \in {"yieldedLast", "done"}
        /\ Terminals = {Len(sOut)}
        /\ sOut = Expected(sWire.lines) \o <<TerminalChunk>>
        /\ SDone => sResult.kind # "throw"

\* a body without a sentinel line was closed and iterated to its end
C17_Witness ==
    /\ sConn = "closed"
    /\ SExhausted
    /\ sWire.lines = <<1, 6>>

\* C18: at most one chunk is terminal and it is the last; the content chunks
\* are those of the lines before the first [DONE], so no line after it is
\* emitted; and once the terminal chunk is out the call reads no more, so a
\* later close adds no second one.
C18_TerminalIsLast ==
    /\ \A i \in Terminals : i = Len(sOut)
    /\ IsPrefixOf(sOut, Expected(sWire.lines) \o <<TerminalChunk>>)
    /\ Terminals # {} => sPc \in {"yieldedLast", "done"}

\* a body with a content line after its sentinel line, iterated to its end
C18_Witness ==
    /\ SExhausted
    /\ sConn = "open"
    /\ sWire.lines = <<1, 4, 2>>
    /\ sOut = <<ContentChunk("He"), TerminalChunk>>

\* the streaming call met a failure
SFailed ==
    \/ sResp # NoResponse /\ ~(StatusClass(sResp.status) = "2xx")
    \/ sResp = NoResponse /\ SDone
    \/ sResp # NoResponse /\ sConn = "none" /\ SDone
    \/ sConn = "errored"

\* C19: a started streaming call has issued exactly one HTTP call, whatever
\* happened to it, and a call that met a failure (non-success status,
\* transport failure, timeout, null body, mid-stream error) ends by raising
\* it: it does not go on and does not call again.
C19_SingleAttempt ==
    /\ sPc # "idle" => sCalls = 1
    /\ (SFailed /\ SDone) => SThrew
    /\ SFailed => sPc \in {"errjson", "done"}

\* each kind of failure ended a call that made one HTTP call
C19_Witness ==
    /\ SThrew
    /\ sCalls = 1
    /\ sConn = "errored"
    /\ sOut # <<>>

\* C15: a 401 initial response, whose body is not JSON or names no other
\* type, ends the call with no chunk and an ApiError of status 401 and type
\* authentication_error.
C15_NonSuccessIsTyped ==
    (SDone /\ sResp.status = 401
           /\ (sResp.body.hasError => sResp.body.etype \in {"none", "authentication_error"}))
        => /\ sOut = <<>>
           /\ SThrew
           /\ IsApiError(sResult.error)
           /\ sResult.error.status = 401
           /\ sResult.error.type = "authentication_error"

\* C20: a sequence that ended, by the sentinel or by the consumer stopping,
\* while the transport had not closed, has released the response body.
C20_ReaderReleased ==
    (SDone /\ sResult.kind \in {"return", "stopped"}) => sConn # "open"

\* ---------------------------------------- timers, decoding, error types
\* C21: once a request has completed, on whatever path, no timeout timer it
\* armed is still pending; and an attempt is only ever aborted by its own
\* timer, which its own index identifies.
C21_NoTimerOutlivesCall ==
    /\ Done => timers = {}
    /\ aborted \subseteq 0 .. attempt

\* C26: a 2xx response whose body is not JSON ends the call at once with an
\* error: it is the only attempt, one HTTP call was made, nothing is retried.
C26_UndecodableNotRetried ==
    \A i \in 1 .. Len(hist) :
        (hist[i].how = "undecodable" /\ hist[i].class = "2xx")
            => (Threw /\ calls = 1 /\ delays = <<>>)

\* C27: an attempt that has not completed, its response not yet received or
\* its body not yet decoded, has its timeout clock running unless the clock
\* has already aborted it; and a timed-out attempt is followed by a backoff
\* sleep when attempts remain, by the failure of the call otherwise.
C27_ClockCoversAttempt ==
    /\ (pc \in {"fetch", "json"} /\ attempt \notin aborted) => attempt \in timers
    /\ \A i \in 1 .. Len(hist) :
          hist[i].how = "timeout" =>
              IF i < MaxAttempts THEN Len(delays) >= i
              ELSE Threw

\* the closed set of error types
ClosedTypes == ErrorTypes \cup {"network_error"}

\* C30: every ApiError a request raises has a type of the closed set,
\* whatever the status and the body of the failed response.
C30_TypeInClosedSet ==
    ThrewApiError => result.error.type \in ClosedTypes

\* ------------------------------------------- claims on the client object
\* C22: a config without a credential, or with an empty one, yields no
\* client object, and no HTTP request ever carries an empty or absent bearer
\* credential.
C22_EmptyKeyFailsFast ==
    /\ NoKey(oConfig) => ~oClient.made
    /\ oSent # NoCall => oSent.bearer \notin {"", Undefined}

\* C24: no operation on a client, failed or not, changes what getConfig()
\* returns, and of two successive getConfig() calls the second returns what
\* the first returned; only the credential is ever replaced.
C24_ConfigImmutable ==
    [][/\ oClient.made => GetConfig(client', oClient') = GetConfig(client, oClient)
       /\ (oSeen.seen /\ oSeen'.seen) => oSeen'.value = oSeen.value]_vars

\* getConfig() was called, the credential was then replaced, and a chat on a
\* non-default configuration failed
C24_Witness ==
    /\ oSeen.seen
    /\ oSeen.value = [baseURL |-> <<"https://h">>, timeout |-> 5000]
    /\ oConfig.baseURL = <<"https://h", Slash>>
    /\ oClient.apiKey = "k2"
    /\ oLast.op = "chat"
    /\ oLast.step.act = "throw"

\* C25: every HTTP request a chat operation, streaming or not, puts on the
\* wire carries a non-empty message sequence.
C25_NoCallWithoutMessages ==
    oSent.op \in {"chat", "chatStream"} => oSent.body.messages = "some"

\* C28: no HTTP request of the non-streaming chat operation carries a stream
\* flag that is true.
C28_ChatNeverStreams ==
    oSent.op = "chat" => oSent.body.stream # "true"

\* C29: validateKey() returns, never throws, and when it returns false the
\* server had rejected the credential.
C29_FalseMeansRejected ==
    oLast.op = "validateKey" =>
        /\ oLast.step.act = "return"
        /\ oLast.step.value = FALSE => oLast.server = "rejects"

\* ------------------------------------------------ claims on concurrency
\* a step of a request that runs alone, against any server
RequestAlone ==
    \/ Call
    \/ \E r \in Responses : FetchResolve(r)
    \/ FetchReject
    \/ \E k \in timers : TimerFire(k)
    \/ FetchAbort
    \/ JsonResolve
    \/ JsonReject
    \/ SleepDone

\* a step of a streaming call that runs alone, against any initial response
\* and the bodies of PairWires
StreamAlone ==
    \/ SStart
    \/ \E r \in StreamResponses, w \in PairWires, b \in BOOLEAN : SFetchResolve(r, w, b)
    \/ SErrJson
    \/ SFetchReject
    \/ STimerFire
    \/ SFetchAbort
    \/ \E n \in 1 .. MaxRead : SRead(n)
    \/ SClose
    \/ SReadError
    \/ SResume
    \/ SReturn

C34_UndecodableErrorKeepsStatus ==
    \A i \in 1 .. Len(hist) :
        (hist[i].how = "undecodable" /\ hist[i].class = "4xx")
            => /\ ThrewApiError
               /\ result.error.status = resp.status
               /\ calls = 1

\* C35: a request sleeps only between two attempts: while an attempt is
\* under way and once the call has ended there is one sleep less than HTTP
\* calls, and during a sleep as many; a call that ended on its first attempt
\* has not slept.
C35_SleepsBetweenAttempts ==
    /\ pc \in {"fetch", "json", "done"} => Len(delays) = calls - 1
    /\ pc = "sleep" => Len(delays) = calls
    /\ (Done /\ Len(hist) = 1) => delays = <<>>

\* the retries were exhausted: as many calls as attempts, one sleep less
C35_Witness ==
    /\ Exhausted
    /\ calls = MaxAttempts
    /\ Len(delays) = MaxAttempts - 1
    /\ MaxAttempts > 1

\* ------------------------------------------------ the error predicates
\* the type the error of a failed initial response is given: that of the
\* body, server_error for a body that is not JSON, unknown_error without one
BodyType(body) ==
    IF ~body.decodable THEN "server_error"
    ELSE IF body.hasError /\ body.etype # "none" THEN body.etype
    ELSE "unknown_error"

\* how many of the three predicates hold of an error
PredicatesTrue(e) ==
    Cardinality({p \in {"rate", "auth", "server"} :
                    \/ p = "rate" /\ IsRateLimited(e)
                    \/ p = "auth" /\ IsAuthError(e)
                    \/ p = "server" /\ IsServerError(e)})

SkippedIds == {i \in LineIds : LineCatalogue[i].kind = "skip" /\ i # 3}

\* the body has a line without the prefix or with a payload that is not JSON
HasSkipped == \E i \in 1 .. Len(sWire.lines) : sWire.lines[i] \in SkippedIds

\* C32: in a body with lines that lack the prefix or whose payload is not
\* JSON, such a line gives no chunk, raises nothing and ends nothing: the
\* chunks are those of the other lines, the call throws only when the
\* transport fails, and at each read all the delivered lines have had their
\* chunks, those after such a line too.
C32_BadLinesSkipped ==
    (sConn # "none" /\ HasSkipped) =>
        /\ IsPrefixOf(sOut, Expected(sWire.lines) \o <<TerminalChunk>>)
        /\ (sPc = "read" /\ sConn = "open") => sOut = Expected(CompleteLines)
        /\ SExhausted => sOut = Expected(sWire.lines) \o <<TerminalChunk>>
        /\ SThrew => sConn = "errored"

\* a malformed line and a comment line before a content line, in one body
C32_Witness ==
    /\ SExhausted
    /\ sWire.lines = <<5, 6, 1>>
    /\ sOut = <<ContentChunk("He"), TerminalChunk>>

\* the catalogue's data line whose JSON has no content delta
EmptyDelta == CHOOSE i \in LineIds : LineCatalogue[i].text = Prefix \o <<"{", "}">>

C37_PartialLineDiscarded ==
    (sConn = "closed" /\ sWire.tail # 0) =>
        /\ sBuffer = LineCatalogue[sWire.tail].text
        /\ sOut = Expected(sWire.lines) \o <<TerminalChunk>>

\* a body that is one content line without its newline
C37_Witness ==
    /\ sConn = "closed"
    /\ SExhausted
    /\ sWire = [lines |-> <<>>, tail |-> 1]
    /\ sOut = <<TerminalChunk>>

\* C39: a sequence iterated until it ended has ended with a terminal chunk
\* and no error, or with an error and no terminal chunk; and after a read
\* failure the consumer holds exactly the chunks of the lines delivered
\* before it, in wire order.
C39_TerminalOrError ==
    /\ (SDone /\ sResult.kind = "return") => Terminals = {Len(sOut)}
    /\ SThrew => Terminals = {}
    /\ (SThrew /\ sConn = "errored") => sOut = Expected(CompleteLines)

\* a read failed after one of two content lines had been delivered
C39_Witness ==
    /\ SThrew
    /\ sConn = "errored"
    /\ sWire.lines = <<1, 2>>
    /\ sOut = <<ContentChunk("He")>>

\* ------------------------------------------------ credentials and flags
\* C38: after chatStream(request) of the source or of its earlier variant,
\* the HTTP call it sent has a body whose stream flag is true and the
\* caller's request object is what the caller passed.
C38_StreamFlagOnCopy ==
    (client.variant \in {"ts", "earlier"} /\ oLast.op = "chatStream") =>
        /\ oSent.op = "chatStream"
        /\ oSent.body.stream = "true"
        /\ oReq.now = oReq.passed

\* C36: each attempt of a request carries the credential the client holds
\* when the attempt starts, and what earlier attempts carried stays as it
\* was: a setApiKey between two attempts changes the later one only.
C36_KeyReadPerAttempt ==
    [][ /\ calls' = calls + 1 => oKeys' = Append(oKeys, oClient.apiKey)
        /\ calls' = calls => oKeys' = oKeys ]_vars

\* one request whose first attempt carried k1 and whose second carried k2
C36_Witness == oKeys = <<"k1", "k2">> /\ calls = 2

\* C40: setApiKey with the empty key throws and leaves the client as it
\* was, setApiKey with a non-empty key makes it the credential, the
\* credential changes in no other way and is never empty, and an attempt
\* that starts carries the credential of that moment.
C40_SetApiKeyChecksKey ==
    [][ /\ OSetApiKey("") => (oClient' = oClient /\ oLast'.step.act = "throw")
        /\ \A k \in SetKeys \ {""} :
              OSetApiKey(k) => (oClient'.apiKey = k /\ oLast'.step.act = "return")
        /\ oClient'.apiKey # oClient.apiKey =>
              (oLast'.op = "setApiKey" /\ oLast'.step.act = "return")
        /\ oClient'.apiKey # ""
        /\ calls' = calls + 1 => oKeys'[Len(oKeys')] = oClient'.apiKey ]_vars

\* the key was replaced after the first attempt, a setApiKey with the
\* empty key then threw, and the attempt under way carries the new key
C40_Witness ==
    /\ oLast = Outcome("setApiKey", "none", Throw(PlainError("API key is required")))
    /\ oClient.apiKey = "k2"
    /\ pc = "fetch"
    /\ oKeys = <<"k1", "k2">>

====
